---- MODULE Spec2Model ----
(***************************************************************************)
(* Retrieval core of EduNavigator: the entity tables, the embedding store, *)
(* the sqlite-vec index tables, search_vector_similarity with its lexical  *)
(* fallback, ChatModule.process_query and the /search endpoint.            *)
(*                                                                         *)
(* Texts are sequences of tokens (the model's characters).  Distances are  *)
(* fixed-point numbers in units of 1/Scale, similarity scores in units of  *)
(* 1/(2*Scale), so that 1.0 - min(distance / 2.0, 1.0) is exact.            *)
(***************************************************************************)
EXTENDS Integers, Sequences, FiniteSets, TLC

\* ------------------------------------------------------------------ bounds
MaxId == 3
MaxLimit == 4
Scale == 10
DIMENSION == 2
MaxWrites == 1

\* ------------------------------------------------------- program constants
K == 3
UniversityLimit == 2
CourseLimit == 3

VARIABLES
    universities,           \* table universities: id -> row
    courses,                \* table courses: id -> row
    university_embeddings,  \* table university_embeddings: sequence of rows
    course_embeddings,      \* table course_embeddings: sequence of rows
    vec_university,         \* virtual table vec_university: absent, or rowid -> vector
    vec_course,             \* virtual table vec_course: absent, or rowid -> vector
    op,                     \* the operation that ran last
    args,                   \* its arguments
    vec_failed,             \* search_vector_similarity entered its except branch
    rows,                   \* cursor.fetchall() of the vector query
    ret,                    \* the value returned (or the response)
    intent,                 \* what classify_query_intent returned
    embed_calls,            \* calls of generate_embedding made by the operation
    conn_opened,            \* the operation opened a database connection
    calls,                  \* its calls of search_vector_similarity, in order
    generator,              \* its call of generate_chat_response
    raised,                 \* the exception that escaped the operation, or "None"
    now,                    \* CURRENT_TIMESTAMP, in writes of the entity tables
    runs,                   \* the runs of the embedding pipeline: process -> position
    rebuild                 \* a rebuild running beside the requests: its position

db == <<universities, courses, university_embeddings, course_embeddings,
        vec_university, vec_course>>
vars == <<universities, courses, university_embeddings, course_embeddings,
          vec_university, vec_course, op, args, vec_failed, rows, ret,
          intent, embed_calls, conn_opened, calls, generator, raised, now, runs,
          rebuild>>

\* What a request leaves alone besides the tables.
procs == <<now, runs, rebuild>>

\* ------------------------------------------------------------------- helpers
Min(a, b) == IF a <= b THEN a ELSE b

Range(s) == {s[i] : i \in 1..Len(s)}

\* The ids of a table in ascending order (the scan order of a rowid table).
RECURSIVE Ascending(_)
Ascending(S) ==
    IF S = {} THEN <<>>
    ELSE LET m == CHOOSE x \in S : \A y \in S : x <= y
         IN <<m>> \o Ascending(S \ {m})

Prefix(s, n) == IF n < 0 \/ n >= Len(s) THEN s ELSE SubSeq(s, 1, n)

\* --------------------------------------------------------------------- texts
\* str.lower() and the ASCII case folding of LIKE, token by token.
Lower(t) ==
    CASE t = "College" -> "college"
      [] t = "Science" -> "science"
      [] OTHER -> t

LowerText(s) == [i \in 1..Len(s) |-> Lower(s[i])]

\* Python's `sub in text`.
Contains(text, sub) ==
    \E i \in 0..(Len(text) - Len(sub)) :
        \A j \in 1..Len(sub) : text[i + j] = sub[j]

\* SQLite's `text LIKE pattern`: % matches any run, _ any one token, every
\* other token matches itself regardless of case.
RECURSIVE LikeMatch(_, _)
LikeMatch(text, pattern) ==
    IF pattern = <<>> THEN text = <<>>
    ELSE IF Head(pattern) = "%"
         THEN LikeMatch(text, Tail(pattern))
              \/ (text # <<>> /\ LikeMatch(Tail(text), pattern))
         ELSE /\ text # <<>>
              /\ (Head(pattern) = "_" \/ Lower(Head(pattern)) = Lower(Head(text)))
              /\ LikeMatch(Tail(text), Tail(pattern))

\* f"%{query}%"
LikePattern(query) == <<"%">> \o query \o <<"%">>

\* ------------------------------------------------------------------- vectors
Vec(a, b) == [i \in 1..DIMENSION |-> IF i = 1 THEN a ELSE IF i = 2 THEN b ELSE 0]

\* struct.pack(f"{n}f", *v): 4 bytes per float32.
Blob(v) == [kind |-> "bytes", nbytes |-> 4 * Len(v), vec |-> v]

\* An unserialized Python list of floats.
FloatList(v) == [kind |-> "list", nbytes |-> 0, vec |-> v]

\* Python's None where an embedding is expected.
NoEmbedding == [kind |-> "None", nbytes |-> 0, vec |-> <<>>]

\* The optional query_text: None, or a string.
NoText == [given |-> FALSE, text |-> <<>>]
Text(q) == [given |-> TRUE, text |-> q]

\* A vec0 virtual table: absent, or its entries rowid -> vector.
NoTable == [exists |-> FALSE, entries |-> <<>>]
Table(entries) == [exists |-> TRUE, entries |-> entries]

RECURSIVE SumSq(_, _, _)
SumSq(a, b, i) ==
    IF i = 0 THEN 0 ELSE (a[i] - b[i]) * (a[i] - b[i]) + SumSq(a, b, i - 1)

\* The integer part of the square root of x, searched upwards from r.
RECURSIVE SqrtFrom(_, _)
SqrtFrom(x, r) == IF (r + 1) * (r + 1) > x THEN r ELSE SqrtFrom(x, r + 1)

ISqrt(x) == SqrtFrom(x, 0)

\* vec0's default metric (L2) between two vectors of the same length, in 1/Scale.
Distance(a, b) == ISqrt(Scale * Scale * SumSq(a, b, Len(a)))


\* ------------------------------------------------------------ table contents
\* The rows the tables are filled from: row i of a table is entry
\* ((i - 1) % Len) + 1 of its catalog.
UniversityCatalog ==
    << [name |-> <<"Oxford", "university">>, country |-> <<"uk">>,
        description |-> <<"Science", "research">>],
       [name |-> <<"MIT">>, country |-> <<"usa">>,
        description |-> <<"College", "of", "science">>],
       [name |-> <<"Kathmandu", "university">>, country |-> <<"nepal">>,
        description |-> <<"campus">>] >>

CourseCatalog ==
    << [name |-> <<"physics">>, description |-> <<"Science", "course">>,
        field_of_study |-> <<"physics">>, degree_type |-> <<"bachelor">>,
        starting_date |-> <<"september">>, duration |-> <<"3y">>,
        fee_structure |-> <<"free">>, language_of_study |-> <<"english">>],
       [name |-> <<"law">>, description |-> <<"law", "degree">>,
        field_of_study |-> <<"law">>, degree_type |-> <<"master">>,
        starting_date |-> <<"january">>, duration |-> <<"2y">>,
        fee_structure |-> <<"paid">>, language_of_study |-> <<"english">>],
       [name |-> <<"data", "science">>, description |-> <<"master">>,
        field_of_study |-> <<"computing">>, degree_type |-> <<"master">>,
        starting_date |-> <<"september">>, duration |-> <<"1y">>,
        fee_structure |-> <<"paid">>, language_of_study |-> <<"nepali">>] >>

VectorCatalog == << Vec(0, 0), Vec(2, 0), Vec(3, 0), Vec(0, 1) >>

\* A row of universities / courses written at time t: created_at and
\* updated_at default to CURRENT_TIMESTAMP.
UniversityRow(data, t) ==
    [name |-> data.name, country |-> data.country,
     description |-> data.description, created_at |-> t, updated_at |-> t]

CourseRow(data, t) ==
    [f \in {"created_at", "updated_at"} \cup DOMAIN data |->
        IF f \in {"created_at", "updated_at"} THEN t ELSE data[f]]

\* A course of the catalog at a university.
CourseAt(data, university_id) ==
    [f \in {"university_id"} \cup DOMAIN data |->
        IF f = "university_id" THEN university_id ELSE data[f]]

\* A stored embedding: the serialized vector, or one of DIMENSION + 1 floats.
StoredBlob(v, long) == IF long THEN Blob(v \o <<0>>) ELSE Blob(v)

\* A stored blob one byte longer than its floats.
Ragged(blob) == [blob EXCEPT !.nbytes = @ + 1]

Pick(catalog, i) == catalog[((i - 1) % Len(catalog)) + 1]

\* Query vectors: at distance 0, 1 (twice), 2 and beyond 2 of stored vectors.
QueryVectors == {Vec(0, 0), Vec(1, 0), Vec(0, 3)}

\* Values passed as query_embedding: a serialized vector of DIMENSION floats,
\* one of another length, and the unserialized list generate_embedding returns.
QueryEmbeddings ==
    {Blob(v) : v \in QueryVectors}
        \cup {Blob(<<1>> \o Vec(0, 0)), FloatList(Vec(1, 0))}

QueryTexts ==
    {<<>>, <<"science">>, <<"university">>, <<"law", "degree">>, <<"%">>}

OptionalTexts == {NoText} \cup {Text(q) : q \in QueryTexts}

EntityTypes == {"university", "course", "campus"}

Limits == 1..MaxLimit

\* ------------------------------------------------------------- vector index
IndexOf(entity_type) ==
    IF entity_type = "university" THEN vec_university ELSE vec_course

\* The exception the vector query of search_vector_similarity ends with, or None.
VectorQueryError(entity_type, query_embedding, ext_ok) ==
    IF ~ext_ok THEN "OperationalError"               \* sqlite_vec.load(conn)
    ELSE IF entity_type \notin {"university", "course"} THEN "ValueError"
    ELSE IF ~IndexOf(entity_type).exists THEN "OperationalError"  \* no such table
    ELSE IF query_embedding.kind # "bytes" THEN "ProgrammingError" \* binding a list
    ELSE IF query_embedding.nbytes # 4 * DIMENSION THEN "OperationalError"
    ELSE "None"

\* `embedding MATCH ? AND K = 3 ORDER BY distance`: every way vec0 may answer,
\* the K nearest entries in ascending distance, entries at equal distance in
\* any order.
Knn(index, q) ==
    LET ids == DOMAIN index
        m   == Min(K, Cardinality(ids))
        d   == [i \in ids |-> Distance(index[i], q)]
    IN { s \in [1..m -> ids] :
           /\ \A i, j \in 1..m : i < j => s[i] # s[j] /\ d[s[i]] <= d[s[j]]
           /\ \A x \in ids \ Range(s) : \A i \in 1..m : d[s[i]] <= d[x] }

KnnRows(index, q, s) ==
    [i \in 1..Len(s) |-> [rowid |-> s[i], distance |-> Distance(index[s[i]], q)]]

\* The answers the vector query may give; <<>> alone when it raises.
VectorAnswers(entity_type, query_embedding, ext_ok) ==
    IF VectorQueryError(entity_type, query_embedding, ext_ok) # "None" THEN {<<>>}
    ELSE LET index == IndexOf(entity_type).entries
         IN {KnnRows(index, query_embedding.vec, s) :
                s \in Knn(index, query_embedding.vec)}

\* JOIN universities u ON v.rowid = u.id
\* JOIN courses c ON v.rowid = c.id JOIN universities u ON c.university_id = u.id
Joined(entity_type, r) ==
    IF entity_type = "university" THEN r.rowid \in DOMAIN universities
    ELSE /\ r.rowid \in DOMAIN courses
         /\ courses[r.rowid].university_id \in DOMAIN universities

\* --------------------------------------------------------------- result rows
UniversityResult(id, score) ==
    [id |-> id, name |-> universities[id].name,
     country |-> universities[id].country,
     description |-> universities[id].description,
     similarity_score |-> score]

CourseResult(id, score) ==
    [id |-> id, name |-> courses[id].name,
     university_name |-> universities[courses[id].university_id].name,
     description |-> courses[id].description,
     degree_type |-> courses[id].degree_type,
     field_of_study |-> courses[id].field_of_study,
     starting_date |-> courses[id].starting_date,
     duration |-> courses[id].duration,
     fee_structure |-> courses[id].fee_structure,
     language_of_study |-> courses[id].language_of_study,
     similarity_score |-> score]

Result(entity_type, id, score) ==
    IF entity_type = "university" THEN UniversityResult(id, score)
    ELSE CourseResult(id, score)

\* The conversion without its clamp: 1.0 - distance / 2.0.
SimilarityUnclamped(distance) == 2 * Scale - distance

\* similarity = 1.0 - min(distance / 2.0, 1.0), in units of 1/(2*Scale).
Similarity(distance) == 2 * Scale - Min(distance, 2 * Scale)

\* The constant score of the lexical path, 0.5, in units of 1/(2*Scale).
DefaultScore == Scale

\* --------------------------------------------------------- lexical fallback
TextMatches(entity_type, id, query) ==
    LET p == LikePattern(query)
    IN IF entity_type = "university"
       THEN \/ LikeMatch(universities[id].name, p)
            \/ LikeMatch(universities[id].description, p)
            \/ LikeMatch(universities[id].country, p)
       ELSE /\ courses[id].university_id \in DOMAIN universities
            /\ \/ LikeMatch(courses[id].name, p)
               \/ LikeMatch(courses[id].description, p)
               \/ LikeMatch(courses[id].field_of_study, p)

SearchTextSimilarity(entity_type, query, limit) ==
    IF entity_type \notin {"university", "course"} THEN <<>>  \* ValueError, caught
    ELSE LET table == IF entity_type = "university" THEN universities ELSE courses
             hits  == {id \in DOMAIN table : TextMatches(entity_type, id, query)}
             scan  == Prefix(Ascending(hits), limit)
         IN [i \in 1..Len(scan) |-> Result(entity_type, scan[i], DefaultScore)]

\* ------------------------------------------------- search_vector_similarity
\* Python truthiness of the optional query_text.
HasText(query_text) == query_text.given /\ query_text.text # <<>>

\* The fallback called without the caller's limit (its default, 5, applies).
SearchVectorSimilarityDefaultLimit(entity_type, query_embedding, limit, query_text, ext_ok, answer) ==
    IF VectorQueryError(entity_type, query_embedding, ext_ok) = "None"
    THEN LET fetched == SelectSeq(answer, LAMBDA r : Joined(entity_type, r))
         IN [vec_failed |-> FALSE,
             rows |-> fetched,
             ret |-> [i \in 1..Len(fetched) |->
                        Result(entity_type, fetched[i].rowid,
                               Similarity(fetched[i].distance))]]
    ELSE [vec_failed |-> TRUE,
          rows |-> <<>>,
          ret |-> IF HasText(query_text)
                  THEN SearchTextSimilarity(entity_type, query_text.text, 5)
                  ELSE <<>>]

\* The fallback run whether or not a query text was passed.
SearchVectorSimilarityAlwaysText(entity_type, query_embedding, limit, query_text, ext_ok, answer) ==
    IF VectorQueryError(entity_type, query_embedding, ext_ok) = "None"
    THEN LET fetched == SelectSeq(answer, LAMBDA r : Joined(entity_type, r))
         IN [vec_failed |-> FALSE,
             rows |-> fetched,
             ret |-> [i \in 1..Len(fetched) |->
                        Result(entity_type, fetched[i].rowid,
                               Similarity(fetched[i].distance))]]
    ELSE [vec_failed |-> TRUE,
          rows |-> <<>>,
          ret |-> SearchTextSimilarity(entity_type, query_text.text, limit)]

\* The vector query without its JOINs: every row of the vec0 table is
\* returned, with the entity's columns when the entity exists.
SearchVectorSimilarityUnjoined(entity_type, query_embedding, limit, query_text, ext_ok, answer) ==
    IF VectorQueryError(entity_type, query_embedding, ext_ok) = "None"
    THEN [vec_failed |-> FALSE,
          rows |-> answer,
          ret |-> [i \in 1..Len(answer) |->
                     IF Joined(entity_type, answer[i])
                     THEN Result(entity_type, answer[i].rowid,
                                 Similarity(answer[i].distance))
                     ELSE [id |-> answer[i].rowid,
                           similarity_score |-> Similarity(answer[i].distance)]]]
    ELSE [vec_failed |-> TRUE,
          rows |-> <<>>,
          ret |-> IF HasText(query_text)
                  THEN SearchTextSimilarity(entity_type, query_text.text, limit)
                  ELSE <<>>]

SearchVectorSimilarity(entity_type, query_embedding, limit, query_text, ext_ok, answer) ==
    IF VectorQueryError(entity_type, query_embedding, ext_ok) = "None"
    THEN LET fetched == SelectSeq(answer, LAMBDA r : Joined(entity_type, r))
         IN [vec_failed |-> FALSE,
             rows |-> fetched,
             ret |-> [i \in 1..Len(fetched) |->
                        Result(entity_type, fetched[i].rowid,
                               Similarity(fetched[i].distance))]]
    ELSE [vec_failed |-> TRUE,
          rows |-> <<>>,
          ret |-> IF HasText(query_text)
                  THEN SearchTextSimilarity(entity_type, query_text.text, limit)
                  ELSE <<>>]


\* A handler that takes the errors of the database driver alone.
CaughtSqliteErrorOnly(error) ==
    error \in {"OperationalError", "ProgrammingError"}

\* `except Exception as e:` of search_vector_similarity and of
\* search_text_similarity: every error raised in the try is caught.
Caught(error) == error # "None"

\* What the try of search_text_similarity raises: ValueError for an entity
\* type that is neither 'university' nor 'course'.
TextSearchError(entity_type) ==
    IF entity_type \notin {"university", "course"} THEN "ValueError" ELSE "None"

\* The exception search_vector_similarity lets through to its caller, or
\* "None": an error of the vector path enters the except branch, which calls
\* search_text_similarity when a query text was passed.
SearchRaises(entity_type, query_embedding, query_text, ext_ok) ==
    LET error == VectorQueryError(entity_type, query_embedding, ext_ok)
    IN IF error = "None" THEN "None"
       ELSE IF ~Caught(error) THEN error
       ELSE IF HasText(query_text) /\ ~Caught(TextSearchError(entity_type))
            THEN TextSearchError(entity_type)
       ELSE "None"


\* ------------------------------------------------- setup_vector_extension
\* A row of university_embeddings / course_embeddings: entity_id is the
\* university_id or course_id column.
StoreRow(id, blob, created_at) ==
    [entity_id |-> id, embedding |-> blob, created_at |-> created_at]

\* `if len(embedding) // 4 != dimension: continue`
PassesLengthCheck(row) == row.embedding.nbytes \div 4 = DIMENSION

\* vec0 takes a row when the blob holds exactly DIMENSION float32 values and
\* the rowid is not taken yet.
InsertsSucceed(store) ==
    /\ \A i \in 1..Len(store) :
          store[i].embedding.kind = "bytes" /\ store[i].embedding.nbytes = 4 * DIMENSION
    /\ \A i, j \in 1..Len(store) : i # j => store[i].entity_id # store[j].entity_id

EntriesOf(store) ==
    [id \in {r.entity_id : r \in Range(store)} |->
        (CHOOSE r \in Range(store) : r.entity_id = id).embedding.vec]

\* What the rebuild leaves in one class's table: the DROP and CREATE take
\* effect at once, the INSERTs are one transaction that is committed only when
\* every INSERT of both classes succeeded.
Rebuilt(store, committed) ==
    IF committed THEN Table(EntriesOf(SelectSeq(store, PassesLengthCheck)))
    ELSE Table(<<>>)

\* A rebuild that only clears tables it finds: it repopulates them on a fresh
\* database alone.
SetupResultClearsExisting(ext_ok) ==
    IF ext_ok
    THEN [vec_university |->
              IF vec_university.exists THEN Table(<<>>)
              ELSE Rebuilt(university_embeddings, TRUE),
          vec_course |->
              IF vec_course.exists THEN Table(<<>>)
              ELSE Rebuilt(course_embeddings, TRUE),
          extension_loaded |-> TRUE]
    ELSE [vec_university |-> vec_university, vec_course |-> vec_course,
          extension_loaded |-> FALSE]

\* setup_vector_extension(db_path) run from start to end: the two tables as it
\* leaves them and the value it returns.  ext_ok: sqlite-vec can be loaded.
SetupResult(ext_ok) ==
    LET uStore == SelectSeq(university_embeddings, PassesLengthCheck)
        cStore == SelectSeq(course_embeddings, PassesLengthCheck)
        committed == InsertsSucceed(uStore) /\ InsertsSucceed(cStore)
    IN IF ext_ok
       THEN [vec_university |-> Rebuilt(university_embeddings, committed),
             vec_course |-> Rebuilt(course_embeddings, committed),
             extension_loaded |-> committed]
       ELSE [vec_university |-> vec_university, vec_course |-> vec_course,
             extension_loaded |-> FALSE]

\* check_and_fix_embeddings(db_path) once sqlite-vec is loaded: it runs
\* setup_vector_extension, then deletes the entries and inserts every stored
\* row again without the length check, in one transaction that is rolled back
\* when an INSERT fails.
CheckAndFixResult ==
    LET s == SetupResult(TRUE)
        reinserted == /\ InsertsSucceed(university_embeddings)
                      /\ InsertsSucceed(course_embeddings)
    IN IF reinserted
       THEN [vec_university |-> Table(EntriesOf(university_embeddings)),
             vec_course |-> Table(EntriesOf(course_embeddings)),
             error |-> "None"]
       ELSE [vec_university |-> s.vec_university, vec_course |-> s.vec_course,
             error |-> "OperationalError"]

\* `SELECT id FROM universities WHERE id = ?` / `... FROM courses WHERE id = ?`
\* of fix_vector_tables.
EntityExists(entity_type, id) ==
    IF entity_type = "university" THEN id \in DOMAIN universities
    ELSE id \in DOMAIN courses

\* fix_vector_tables(db_path): DROP and CREATE as in setup_vector_extension,
\* then an INSERT for every stored row whose entity exists and whose blob
\* passes the length check; commit, or rollback when an INSERT fails.
FixResult(ext_ok) ==
    LET uStore == SelectSeq(university_embeddings,
                            LAMBDA r : EntityExists("university", r.entity_id)
                                       /\ PassesLengthCheck(r))
        cStore == SelectSeq(course_embeddings,
                            LAMBDA r : EntityExists("course", r.entity_id)
                                       /\ PassesLengthCheck(r))
        committed == InsertsSucceed(uStore) /\ InsertsSucceed(cStore)
    IN IF ~ext_ok
       THEN [vec_university |-> vec_university, vec_course |-> vec_course,
             error |-> "OperationalError"]
       ELSE IF committed
       THEN [vec_university |-> Table(EntriesOf(uStore)),
             vec_course |-> Table(EntriesOf(cStore)), error |-> "None"]
       ELSE [vec_university |-> Table(<<>>), vec_course |-> Table(<<>>),
             error |-> "OperationalError"]

\* ------------------------------------------------------- generate_embedding
\* What embedding_model.embed_query gives: a fault, or a list of floats.
ModelFault == [fault |-> TRUE, values |-> <<>>]
ModelList(v) == [fault |-> FALSE, values |-> v]

EmbedOutcomes ==
    {ModelFault, ModelList(Vec(1, 0)), ModelList(Vec(1, 0) \o <<1>>),
     ModelList(SubSeq(Vec(1, 0), 1, DIMENSION - 1))}

\* The embedding without the truncation and the padding.
GenerateEmbeddingAsGiven(out) == IF out.fault THEN NoEmbedding ELSE FloatList(out.values)

\* Truncate or zero-pad to DIMENSION; None on a fault.
GenerateEmbedding(out) ==
    IF out.fault THEN NoEmbedding
    ELSE IF Len(out.values) > DIMENSION
         THEN FloatList(SubSeq(out.values, 1, DIMENSION))
         ELSE FloatList(out.values \o [i \in 1..(DIMENSION - Len(out.values)) |-> 0])

\* A handler that does not test the embedding.
FalsyNever(embedding) == FALSE

\* `not embedding`: None, or an empty list.
Falsy(embedding) == embedding.kind = "None" \/ embedding.vec = <<>>

\* ---------------------------------------------------- classify_query_intent
Targets == {"university", "course", "both", "unrecognized"}

\* What the classification chain gives: a fault (the call or the parse
\* failed), or a parsed QueryIntent.
ChainFault == [fault |-> TRUE, requires_lookup |-> FALSE, target |-> "", reason |-> ""]

ChainOutcomes ==
    {ChainFault}
        \cup {[fault |-> FALSE, requires_lookup |-> b, target |-> t, reason |-> "because"] :
                b \in BOOLEAN, t \in Targets}

\* result.dict(), or the fault value of the except branch.
ClassifyQueryIntent(out) ==
    IF out.fault
    THEN [requires_lookup |-> FALSE, target |-> "unknown", reason |-> "error"]
    ELSE [requires_lookup |-> out.requires_lookup, target |-> out.target,
          reason |-> out.reason]

\* ChatModule._requires_data_lookup returns the dict classify_query_intent
\* gave, and process_query tests it with `if requires_lookup:`: a dict is
\* true when it has at least one key.
RequiresDataLookup(query_intent) == DOMAIN query_intent # {}

\* ----------------------------------------------------------------- chat
university_keywords == {"university", "college", "institution", "campus", "school"}
course_keywords ==
    {"course", "program", "degree", "study", "major", "bachelor", "master"}

\* sum(1 for keyword in keywords if keyword.lower() in query.lower())
KeywordScore(keywords, query) ==
    Cardinality({kw \in keywords : Contains(LowerText(query), <<Lower(kw)>>)})

SearchesUniversities(query) ==
    KeywordScore(university_keywords, query) >= KeywordScore(course_keywords, query)

Call(entity_type, limit, query_text, r) ==
    [entity_type |-> entity_type, limit |-> limit, query_text |-> query_text,
     vec_failed |-> r.vec_failed, ret |-> r.ret]

\* generate_chat_response(query, context): "answer" is the model's text,
\* "apology" the fixed text of the except branch.  Formatting a university
\* reads univ['university_name'], formatting a course reads
\* course['tuition_fee'] and course['application_deadline'].
FormatRaises(universities_ctx, courses_ctx) ==
    \/ \E i \in 1..Len(universities_ctx) :
          ~({"university_name", "country"} \subseteq DOMAIN universities_ctx[i])
    \/ \E i \in 1..Len(courses_ctx) :
          ~({"name", "university_name", "degree_type", "field_of_study", "duration",
             "tuition_fee", "application_deadline", "description"}
                \subseteq DOMAIN courses_ctx[i])

GenerateChatResponse(with_context, universities_ctx, courses_ctx, llm_ok) ==
    IF with_context /\ (universities_ctx # <<>> \/ courses_ctx # <<>>)
    THEN IF FormatRaises(universities_ctx, courses_ctx) \/ ~llm_ok
         THEN "apology" ELSE "answer"
    ELSE IF llm_ok THEN "answer" ELSE "apology"

\* ------------------------------------------------------------ /search
SearchTypes == {"all", "universities", "courses", "programs"}

ApiQueries == {<<"science">>, <<"law", "degree">>}

\* The fields the response models University and Course require.
UniversityFields ==
    {"id", "country", "university_name", "city", "university_url", "similarity_score"}
CourseFields ==
    {"id", "name", "university_name", "description", "degree_type", "field_of_study",
     "similarity_score"}

\* SearchResponse(universities=[University(**u) ...], courses=[Course(**c) ...])
ValidationFails(universities_results, courses_results) ==
    \/ \E i \in 1..Len(universities_results) :
          ~(UniversityFields \subseteq DOMAIN universities_results[i])
    \/ \E i \in 1..Len(courses_results) :
          ~(CourseFields \subseteq DOMAIN courses_results[i])

HttpError(detail) ==
    [status |-> 500, detail |-> detail, universities |-> <<>>, courses |-> <<>>]

HttpOk(universities_results, courses_results) ==
    [status |-> 200, detail |-> "", universities |-> universities_results,
     courses |-> courses_results]

\* Every search type searches every class.
SearchesClassAlways(search_type, class) == TRUE

SearchesClass(search_type, class) == search_type \in {"all", class}

\* ------------------------------------------------------ embedding pipeline
\* A driver that binds whatever it is given.
BindableAny(value) == TRUE

\* sqlite3 binds None, int, float, str and bytes; a list raises
\* ProgrammingError.
Bindable(value) == value.kind \in {"bytes", "None"}

StoredIds(store) == {store[i].entity_id : i \in 1..Len(store)}

\* SELECT ... FROM universities
\* WHERE id NOT IN (SELECT university_id FROM university_embeddings)
Pending == Ascending(DOMAIN universities \ StoredIds(university_embeddings))

\* The model's outputs for n texts: faults for the first j, then `out`.
Outputs(n, j, out) == [i \in 1..n |-> IF i <= j THEN ModelFault ELSE out]

\* generate_embedding for every pending university, in order.
Embeddings(pending, outs) ==
    [i \in 1..Len(pending) |->
        [id |-> pending[i], output |-> outs[i],
         embedding |-> GenerateEmbedding(outs[i])]]

\* The first university whose INSERT raises, 0 when none does.
FirstRaising(embs) ==
    LET raising == {i \in 1..Len(embs) :
                      ~Falsy(embs[i].embedding) /\ ~Bindable(embs[i].embedding)}
    IN IF raising = {} THEN 0 ELSE CHOOSE i \in raising : \A j \in raising : i <= j

\* The loop of _generate_university_embeddings and its commit or rollback:
\* the embeddings it computed, the rows it committed, the error it logged.
StoreEmbeddings(pending, outs) ==
    LET embs == Embeddings(pending, outs)
        stop == FirstRaising(embs)
        kept == SelectSeq(embs, LAMBDA e : ~Falsy(e.embedding))
    IN IF stop # 0
       THEN [embeddings |-> SubSeq(embs, 1, stop), stored |-> <<>>,
             error |-> "ProgrammingError"]
       ELSE [embeddings |-> embs,
             stored |-> [i \in 1..Len(kept) |->
                           StoreRow(kept[i].id, kept[i].embedding, now)],
             error |-> "None"]

\* ------------------------------------------- insert_university, insert_course
\* The data passed to insert_university: the first and the last university of
\* the catalog with a new description.
UniversityInputs ==
    {[name |-> UniversityCatalog[i].name, country |-> UniversityCatalog[i].country,
      description |-> <<"updated">>] : i \in {1, Len(UniversityCatalog)}}

\* The data passed to insert_course: the first course of the catalog at
\* university 1, with a new description.
CourseInputs ==
    {[CourseAt(CourseCatalog[1], 1) EXCEPT !.description = <<"updated">>]}

\* The SELECT with its two parameters bound in the other order.
MatchUniversitySwapped(data) ==
    {id \in DOMAIN universities :
        universities[id].name = data.country /\ universities[id].country = data.name}

\* SELECT id FROM universities WHERE name = ? AND country = ?
MatchUniversity(data) ==
    {id \in DOMAIN universities :
        universities[id].name = data.name /\ universities[id].country = data.country}

\* SELECT id FROM courses WHERE name = ? AND university_id = ?
MatchCourse(data) ==
    {id \in DOMAIN courses :
        courses[id].name = data.name /\ courses[id].university_id = data.university_id}

\* cursor.fetchone()[0] of a match.
First(ids) == CHOOSE id \in ids : \A other \in ids : id <= other

\* ------------------------------------- StructuredDataGenerator._store_data
\* The documents extract_structured_data hands to _store_data: one without
\* universities, one with a university, one with two universities of which
\* the first has a course.
ExtractedUniversity(i, extracted_courses) ==
    [university_name |-> UniversityCatalog[i].name,
     country |-> UniversityCatalog[i].country,
     courses |-> extracted_courses]

Documents ==
    {[universities |-> <<>>],
     [universities |-> <<ExtractedUniversity(1, <<>>)>>],
     [universities |-> <<ExtractedUniversity(Len(UniversityCatalog), <<CourseCatalog[1]>>),
                         ExtractedUniversity(1, <<>>)>>]}

\* The dict _store_data builds for a university and passes to
\* insert_university.
UniversityToInsert(university_data, embedding) ==
    [country |-> university_data.country,
     university_name |-> university_data.university_name,
     city |-> <<>>, university_url |-> <<>>,
     undergraduate_programs |-> <<>>, graduate_programs |-> <<>>,
     tuition_undergrad |-> <<>>, tuition_grad |-> <<>>, living_cost |-> <<>>,
     application_deadlines |-> <<>>, admission_requirements |-> <<>>,
     scholarships_international |-> <<>>, scholarships_nepali |-> <<>>,
     campus_facilities |-> <<>>, embedding |-> embedding]

\* insert_university reads data["name"], data["country"] and
\* data["description"]: KeyError when the dict lacks one of them.
InsertUniversityKeyError(data) ==
    IF {"name", "country", "description"} \subseteq DOMAIN data
    THEN "None" ELSE "KeyError"

\* The first exception raised inside the try of _store_data, or "None".
\* generate_embedding returns None instead of raising.
StoreDataError(document, out) ==
    IF document.universities = <<>> THEN "None"
    ELSE InsertUniversityKeyError(
             UniversityToInsert(Head(document.universities), GenerateEmbedding(out)))

\* A handler that takes the errors of the database driver alone.
StoreDataCatchesSqliteError(error) ==
    error \in {"OperationalError", "IntegrityError", "ProgrammingError"}

\* `except Exception as e:` of _store_data: rollback and log.
StoreDataCatches(error) == error # "None"

\* -------------------------------------------------------------------- state
NoIntent == [requires_lookup |-> FALSE, target |-> "none", reason |-> "not classified"]

NoGenerator == [called |-> FALSE, with_context |-> FALSE,
                universities |-> <<>>, courses |-> <<>>, llm_ok |-> TRUE]

\* The processes that may run the embedding pipeline at the same time.
Procs == {1, 2}

\* A pipeline process: not running; constructed; or between its SELECT of the
\* universities without an embedding and its INSERTs.
NoRun == [pc |-> "none", pending |-> <<>>, started |-> 0]

\* A rebuild beside the requests: not running, or after its DROPs, or after
\* its CREATEs; with the two tables as they were when it began.
NoRebuild == [pc |-> "none", vec_university |-> NoTable, vec_course |-> NoTable]

\* The database file is an input of every entry point.  Init draws it: nU
\* universities and nC courses (ids 1.., rows from the catalogs, every course
\* at an existing university unless the last one is `gone`, a course whose
\* university row is missing), stored embeddings for the ids 1..k of each
\* class, of which the last may hold DIMENSION + 1 floats (`long`) or one
\* byte more than DIMENSION floats (`ragged`), and no vec0 table yet.
Init ==
    /\ \E nU \in 0..MaxId, nC \in 0..MaxId, k \in 0..MaxId :
        \E long \in {0, k}, ragged \in {0, k}, gone \in {0, nC} :
          /\ nC > 0 => nU > 0
          /\ long = 0 \/ ragged = 0
          /\ (long # 0 \/ ragged # 0) => gone = 0
          /\ universities =
                [i \in 1..nU |-> UniversityRow(Pick(UniversityCatalog, i), 0)]
          /\ courses =
                [i \in 1..nC |->
                    CourseRow(CourseAt(Pick(CourseCatalog, i),
                                       IF i = gone THEN nU + 1
                                       ELSE ((i - 1) % nU) + 1), 0)]
          /\ university_embeddings =
                [i \in 1..k |->
                    LET blob == StoredBlob(Pick(VectorCatalog, i), i = long)
                    IN StoreRow(i, IF i = ragged THEN Ragged(blob) ELSE blob, 0)]
          /\ course_embeddings =
                [i \in 1..k |->
                    LET blob == StoredBlob(Pick(VectorCatalog, i + 1), i = long)
                    IN StoreRow(i, IF i = ragged THEN Ragged(blob) ELSE blob, 0)]
    /\ vec_university = NoTable
    /\ vec_course = NoTable
    /\ op = "idle"
    /\ args = <<>>
    /\ vec_failed = FALSE
    /\ rows = <<>>
    /\ ret = <<>>
    /\ intent = NoIntent
    /\ embed_calls = 0
    /\ conn_opened = FALSE
    /\ calls = <<>>
    /\ generator = NoGenerator
    /\ raised = "None"
    /\ now = 0
    /\ runs = [p \in Procs |-> NoRun]
    /\ rebuild = NoRebuild

\* ------------------------------------------------------------------ actions
\* setup_vector_extension(db_path), also directly after another run of it.
\* args.before is what the call found: the tables and the operation before it.
SetupVectorExtension ==
    /\ op \in {"idle", "setup_vector_extension"}
    /\ \E ext_ok \in BOOLEAN :
        LET s == SetupResult(ext_ok)
        IN /\ vec_university' = s.vec_university
           /\ vec_course' = s.vec_course
           /\ op' = "setup_vector_extension"
           /\ args' = [ext_ok |-> ext_ok,
                       before |-> [op |-> op, ret |-> ret,
                                   vec_university |-> vec_university,
                                   vec_course |-> vec_course]]
           /\ ret' = s.extension_loaded
           /\ vec_failed' = FALSE
           /\ rows' = <<>>
           /\ intent' = NoIntent
           /\ embed_calls' = 0
           /\ conn_opened' = TRUE
           /\ calls' = <<>>
           /\ generator' = NoGenerator
           /\ raised' = "None"
           /\ UNCHANGED <<universities, courses, university_embeddings,
                          course_embeddings, procs>>

\* check_and_fix_embeddings(db_path); ret is the error it logged, or "None".
CheckAndFixEmbeddings ==
    /\ op = "idle"
    /\ \E ext_ok \in BOOLEAN :
        LET r == CheckAndFixResult
        IN /\ vec_university' = IF ext_ok THEN r.vec_university ELSE vec_university
           /\ vec_course' = IF ext_ok THEN r.vec_course ELSE vec_course
           /\ op' = "check_and_fix_embeddings"
           /\ args' = [ext_ok |-> ext_ok]
           /\ ret' = IF ext_ok THEN r.error ELSE "OperationalError"
           /\ vec_failed' = FALSE
           /\ rows' = <<>>
           /\ intent' = NoIntent
           /\ embed_calls' = 0
           /\ conn_opened' = TRUE
           /\ calls' = <<>>
           /\ generator' = NoGenerator
           /\ raised' = "None"
           /\ UNCHANGED <<universities, courses, university_embeddings,
                          course_embeddings, procs>>

\* fix_vector_tables(db_path); ret is the error it logged, or "None".
FixVectorTables ==
    /\ op = "idle"
    /\ \E ext_ok \in BOOLEAN :
        LET r == FixResult(ext_ok)
        IN /\ vec_university' = r.vec_university
           /\ vec_course' = r.vec_course
           /\ op' = "fix_vector_tables"
           /\ args' = [ext_ok |-> ext_ok]
           /\ ret' = r.error
           /\ vec_failed' = FALSE
           /\ rows' = <<>>
           /\ intent' = NoIntent
           /\ embed_calls' = 0
           /\ conn_opened' = TRUE
           /\ calls' = <<>>
           /\ generator' = NoGenerator
           /\ raised' = "None"
           /\ UNCHANGED <<universities, courses, university_embeddings,
                          course_embeddings, procs>>

\* search_vector_similarity(conn, entity_type, query_embedding, limit, query_text)
SearchCall ==
    /\ op = "idle"
    /\ \E entity_type \in EntityTypes, query_embedding \in QueryEmbeddings,
       ext_ok \in BOOLEAN :
        \E answer \in VectorAnswers(entity_type, query_embedding, ext_ok),
           limit \in Limits, query_text \in OptionalTexts :
            LET r == SearchVectorSimilarity(entity_type, query_embedding, limit,
                                            query_text, ext_ok, answer)
            IN /\ op' = "search_vector_similarity"
               /\ args' = [entity_type |-> entity_type, limit |-> limit,
                           query_text |-> query_text,
                           query_embedding |-> query_embedding]
               /\ vec_failed' = r.vec_failed
               /\ rows' = r.rows
               /\ ret' = r.ret
               /\ intent' = NoIntent
               /\ embed_calls' = 0
               /\ conn_opened' = FALSE
               /\ calls' = <<>>
               /\ generator' = NoGenerator
               /\ raised' = SearchRaises(entity_type, query_embedding,
                                         query_text, ext_ok)
               /\ UNCHANGED <<db, procs>>

\* ChatModule.process_query(query); conn_ok: sqlite3.connect(db_path) of
\* _search_relevant_data gives a connection (it is called outside the try),
\* ext_ok: sqlite-vec can be loaded on the connection the two searches share,
\* llm_ok: the model call succeeds.
ProcessQuery ==
    /\ op = "idle"
    /\ \E query \in QueryTexts, chain \in ChainOutcomes, model \in EmbedOutcomes,
       llm_ok \in BOOLEAN, conn_ok \in BOOLEAN, ext_ok \in BOOLEAN :
        LET query_intent == ClassifyQueryIntent(chain)
            query_embedding == GenerateEmbedding(model)
        IN \E answer_c \in VectorAnswers("course", query_embedding, ext_ok),
              answer_u \in VectorAnswers("university", query_embedding, ext_ok) :
            LET lookup == RequiresDataLookup(query_intent)
                connecting == lookup /\ ~Falsy(query_embedding)
                searched == connecting /\ conn_ok
                escaped == connecting /\ ~conn_ok
                c == SearchVectorSimilarity("course", query_embedding, CourseLimit,
                                            Text(query), ext_ok, answer_c)
                u == SearchVectorSimilarity("university", query_embedding,
                                            UniversityLimit, Text(query), ext_ok, answer_u)
                both == searched /\ SearchesUniversities(query)
                courses_ctx == IF searched THEN c.ret ELSE <<>>
                universities_ctx == IF both THEN u.ret ELSE <<>>
            IN /\ op' = "process_query"
               /\ args' = [query |-> query, query_embedding |-> query_embedding]
               /\ intent' = query_intent
               /\ embed_calls' = IF lookup THEN 1 ELSE 0
               /\ conn_opened' = searched
               /\ calls' =
                     (IF searched
                      THEN <<Call("course", CourseLimit, Text(query), c)>> ELSE <<>>)
                     \o (IF both
                         THEN <<Call("university", UniversityLimit, Text(query), u)>>
                         ELSE <<>>)
               /\ generator' =
                     IF escaped THEN NoGenerator
                     ELSE [called |-> TRUE, with_context |-> searched,
                           universities |-> universities_ctx,
                           courses |-> courses_ctx, llm_ok |-> llm_ok]
               /\ ret' = IF escaped THEN "raised"
                         ELSE GenerateChatResponse(searched, universities_ctx,
                                                   courses_ctx, llm_ok)
               /\ vec_failed' = FALSE
               /\ rows' = <<>>
               /\ raised' = IF escaped THEN "OperationalError" ELSE "None"
               /\ UNCHANGED <<db, procs>>

\* GET /search?query=&limit=&search_type= ; conn_ok: get_synced_conn() gave a
\* connection, ext_ok: sqlite-vec can be loaded on it.  search_vector_similarity returns a list whatever happens, so
\* the handler's `except Exception` branch is never entered.
ApiSearch ==
    /\ op = "idle"
    /\ \E query \in ApiQueries, limit \in Limits, search_type \in SearchTypes,
       model \in EmbedOutcomes, conn_ok \in BOOLEAN, ext_ok \in BOOLEAN :
        LET embedding == GenerateEmbedding(model)
        IN \E answer_u \in VectorAnswers("university", embedding, ext_ok),
              answer_c \in VectorAnswers("course", embedding, ext_ok) :
            LET connected == ~Falsy(embedding) /\ conn_ok
                do_u == connected /\ SearchesClass(search_type, "universities")
                do_c == connected /\ SearchesClass(search_type, "courses")
                u == SearchVectorSimilarity("university", embedding, limit, NoText,
                                            ext_ok, answer_u)
                c == SearchVectorSimilarity("course", embedding, limit, NoText,
                                            ext_ok, answer_c)
                universities_results == IF do_u THEN u.ret ELSE <<>>
                courses_results == IF do_c THEN c.ret ELSE <<>>
            IN /\ op' = "api_search"
               /\ args' = [query |-> query, limit |-> limit, search_type |-> search_type,
                           query_embedding |-> embedding]
               /\ embed_calls' = 1
               /\ conn_opened' = connected
               /\ calls' =
                     (IF do_u THEN <<Call("university", limit, NoText, u)>> ELSE <<>>)
                     \o (IF do_c THEN <<Call("course", limit, NoText, c)>> ELSE <<>>)
               /\ ret' =
                     IF Falsy(embedding)
                     THEN HttpError("Failed to generate embedding for query")
                     ELSE IF ~conn_ok
                          \/ ValidationFails(universities_results, courses_results)
                     THEN HttpError("Internal Server Error")
                     ELSE HttpOk(universities_results, courses_results)
               /\ intent' = NoIntent
               /\ generator' = NoGenerator
               /\ vec_failed' = FALSE
               /\ rows' = <<>>
               /\ raised' = "None"
               /\ UNCHANGED <<db, procs>>

\* EmbeddingGenerator(db_path) in process p: the constructor runs
\* setup_vector_extension and goes on when it fails.
EmbeddingGeneratorNew ==
    /\ op = "idle"
    /\ \E p \in Procs, ext_ok \in BOOLEAN :
        LET s == SetupResult(ext_ok)
        IN /\ runs[p].pc = "none"
           /\ vec_university' = s.vec_university
           /\ vec_course' = s.vec_course
           /\ runs' = [runs EXCEPT ![p] = [pc |-> "constructed", pending |-> <<>>,
                                           started |-> 0]]
           /\ UNCHANGED <<universities, courses, university_embeddings,
                          course_embeddings, op, args, vec_failed, rows, ret, intent,
                          embed_calls, conn_opened, calls, generator, raised, now,
                          rebuild>>

\* generate_embeddings() of process p up to cursor.fetchall(); columns_ok: the
\* table universities has the columns the SELECT names.  Without them the
\* run ends in its `except sqlite3.OperationalError` branch.
SelectPending ==
    /\ op = "idle"
    /\ \E p \in Procs, columns_ok \in BOOLEAN :
        /\ runs[p].pc = "constructed"
        /\ runs' = [runs EXCEPT ![p] =
                        IF columns_ok
                        THEN [pc |-> "selected", pending |-> Pending, started |-> now]
                        ELSE NoRun]
        /\ op' = IF columns_ok THEN op ELSE "generate_embeddings"
        /\ args' = IF columns_ok THEN args
                   ELSE [proc |-> p, pending |-> <<>>, started |-> now]
        /\ ret' = IF columns_ok THEN ret
                  ELSE [embeddings |-> <<>>, stored |-> <<>>,
                        error |-> "OperationalError"]
        /\ UNCHANGED <<db, vec_failed, rows, intent, embed_calls, conn_opened,
                       calls, generator, raised, now, rebuild>>

\* A run that ends with a rebuild of the index.
StorePendingRebuilding ==
    /\ op = "idle"
    /\ \E p \in Procs :
        /\ runs[p].pc = "selected"
        /\ \E j \in 0..Len(runs[p].pending), out \in EmbedOutcomes :
            LET pending == runs[p].pending
                r == StoreEmbeddings(pending, Outputs(Len(pending), j, out))
            IN /\ university_embeddings' = university_embeddings \o r.stored
               /\ vec_university' = SetupResult(TRUE).vec_university
               /\ vec_course' = SetupResult(TRUE).vec_course
               /\ runs' = [runs EXCEPT ![p] = NoRun]
               /\ op' = "generate_embeddings"
               /\ args' = [proc |-> p, pending |-> pending,
                           started |-> runs[p].started]
               /\ ret' = r
               /\ embed_calls' = Len(r.embeddings)
               /\ UNCHANGED <<universities, courses, course_embeddings,
                              vec_failed, rows, intent, conn_opened, calls,
                              generator, raised, now, rebuild>>

\* The rest of generate_embeddings() of process p: the loop over the rows it
\* selected, then the commit, or the rollback when an INSERT raised.
StorePending ==
    /\ op = "idle"
    /\ \E p \in Procs :
        /\ runs[p].pc = "selected"
        /\ \E j \in 0..Len(runs[p].pending), out \in EmbedOutcomes :
            LET pending == runs[p].pending
                r == StoreEmbeddings(pending, Outputs(Len(pending), j, out))
            IN /\ university_embeddings' = university_embeddings \o r.stored
               /\ runs' = [runs EXCEPT ![p] = NoRun]
               /\ op' = "generate_embeddings"
               /\ args' = [proc |-> p, pending |-> pending,
                           started |-> runs[p].started]
               /\ ret' = r
               /\ embed_calls' = Len(r.embeddings)
               /\ UNCHANGED <<universities, courses, course_embeddings,
                              vec_university, vec_course, vec_failed, rows, intent,
                              conn_opened, calls, generator, raised, now, rebuild>>

\* insert_university(conn, data) and the caller's commit.
InsertUniversity ==
    /\ op = "idle"
    /\ now < MaxWrites
    /\ \E data \in UniversityInputs :
        LET result == MatchUniversity(data)
            university_id == IF result # {} THEN First(result)
                             ELSE Len(universities) + 1
        IN /\ universities' =
                 IF result # {}
                 THEN [universities EXCEPT
                          ![university_id].description = data.description,
                          ![university_id].updated_at = now + 1]
                 ELSE Append(universities, UniversityRow(data, now + 1))
           /\ now' = now + 1
           /\ op' = "insert_university"
           /\ args' = [data |-> data, updated |-> result # {}]
           /\ ret' = university_id
           /\ UNCHANGED <<courses, university_embeddings, course_embeddings,
                          vec_university, vec_course, vec_failed, rows, intent,
                          embed_calls, conn_opened, calls, generator, raised, runs,
                          rebuild>>

\* insert_course(conn, data), for a course of an existing university, and the
\* caller's commit.
InsertCourse ==
    /\ op = "idle"
    /\ now < MaxWrites
    /\ \E data \in CourseInputs :
        LET result == MatchCourse(data)
            course_id == IF result # {} THEN First(result) ELSE Len(courses) + 1
        IN /\ data.university_id \in DOMAIN universities
           /\ courses' =
                 IF result # {}
                 THEN [courses EXCEPT
                          ![course_id] =
                              [CourseRow(data, now + 1) EXCEPT
                                  !.created_at = courses[course_id].created_at]]
                 ELSE Append(courses, CourseRow(data, now + 1))
           /\ now' = now + 1
           /\ op' = "insert_course"
           /\ args' = [data |-> data, updated |-> result # {}]
           /\ ret' = course_id
           /\ UNCHANGED <<universities, university_embeddings, course_embeddings,
                          vec_university, vec_course, vec_failed, rows, intent,
                          embed_calls, conn_opened, calls, generator, raised, runs,
                          rebuild>>

\* StructuredDataGenerator._store_data(data).  insert_university raises
\* KeyError for every dict _store_data builds, before its first SQL
\* statement, so the first university of a document ends the loop: the except
\* branch rolls back a transaction without writes.  Only a document without
\* universities reaches the commit.
StoreData ==
    /\ op = "idle"
    /\ \E document \in Documents, out \in EmbedOutcomes :
        LET error == StoreDataError(document, out)
        IN /\ error # "None" \/ document.universities = <<>>
           /\ op' = "_store_data"
           /\ args' = [document |-> document]
           /\ ret' = [error |-> error,
                      rolled_back |-> error # "None" /\ StoreDataCatches(error)]
           /\ raised' = IF error # "None" /\ ~StoreDataCatches(error)
                        THEN error ELSE "None"
           /\ embed_calls' = IF document.universities = <<>> THEN 0 ELSE 1
           /\ conn_opened' = TRUE
           /\ vec_failed' = FALSE
           /\ rows' = <<>>
           /\ intent' = NoIntent
           /\ calls' = <<>>
           /\ generator' = NoGenerator
           /\ UNCHANGED <<db, procs>>

\* setup_vector_extension in a process beside the requests, statement by
\* statement.  The DROPs take effect at once.
SetupDrop ==
    /\ op = "idle"
    /\ rebuild.pc = "none"
    /\ rebuild' = [pc |-> "dropped", vec_university |-> vec_university,
                   vec_course |-> vec_course]
    /\ vec_university' = NoTable
    /\ vec_course' = NoTable
    /\ UNCHANGED <<universities, courses, university_embeddings, course_embeddings,
                   op, args, vec_failed, rows, ret, intent, embed_calls,
                   conn_opened, calls, generator, raised, now, runs>>

\* The CREATE VIRTUAL TABLE statements take effect at once as well.
SetupCreate ==
    /\ op = "idle"
    /\ rebuild.pc = "dropped"
    /\ rebuild' = [rebuild EXCEPT !.pc = "created"]
    /\ vec_university' = Table(<<>>)
    /\ vec_course' = Table(<<>>)
    /\ UNCHANGED <<universities, courses, university_embeddings, course_embeddings,
                   op, args, vec_failed, rows, ret, intent, embed_calls,
                   conn_opened, calls, generator, raised, now, runs>>

\* The INSERTs are seen by other connections at conn.commit(), or never.
SetupPopulate ==
    /\ op = "idle"
    /\ rebuild.pc = "created"
    /\ rebuild' = NoRebuild
    /\ vec_university' = SetupResult(TRUE).vec_university
    /\ vec_course' = SetupResult(TRUE).vec_course
    /\ UNCHANGED <<universities, courses, university_embeddings, course_embeddings,
                   op, args, vec_failed, rows, ret, intent, embed_calls,
                   conn_opened, calls, generator, raised, now, runs>>

\* The caller has taken the result of the last operation; the next one can start.
Return ==
    /\ op # "idle"
    /\ op' = "idle"
    /\ args' = <<>>
    /\ vec_failed' = FALSE
    /\ rows' = <<>>
    /\ ret' = <<>>
    /\ intent' = NoIntent
    /\ embed_calls' = 0
    /\ conn_opened' = FALSE
    /\ calls' = <<>>
    /\ generator' = NoGenerator
    /\ raised' = "None"
    /\ UNCHANGED <<db, procs>>

Next ==
    \/ SearchCall \/ ProcessQuery \/ ApiSearch
    \/ SetupVectorExtension \/ CheckAndFixEmbeddings \/ FixVectorTables
    \/ EmbeddingGeneratorNew \/ SelectPending \/ StorePending
    \/ InsertUniversity \/ InsertCourse \/ StoreData
    \/ SetupDrop \/ SetupCreate \/ SetupPopulate
    \/ Return

Spec == Init /\ [][Next]_vars

\* The direct calls of search_vector_similarity.
NextSearch == SearchCall \/ SetupVectorExtension \/ Return

SpecSearch == Init /\ [][NextSearch]_vars

\* The chat requests.
NextChat == ProcessQuery \/ SetupVectorExtension \/ Return

SpecChat == Init /\ [][NextChat]_vars

\* The requests of the search endpoint.
NextApi == ApiSearch \/ SetupVectorExtension \/ Return

SpecApi == Init /\ [][NextApi]_vars

\* The rebuilds.
NextRebuild ==
    SetupVectorExtension \/ CheckAndFixEmbeddings \/ FixVectorTables \/ Return

SpecRebuild == Init /\ [][NextRebuild]_vars

\* The embedding pipeline, in two processes, and the writes of the entity tables.
NextPipeline ==
    \/ EmbeddingGeneratorNew \/ SelectPending \/ StorePending
    \/ InsertUniversity \/ InsertCourse
    \/ Return

SpecPipeline == Init /\ [][NextPipeline]_vars

\* Direct searches beside a rebuild in another process.
NextConcurrent == SearchCall \/ SetupDrop \/ SetupCreate \/ SetupPopulate \/ Return

SpecConcurrent == Init /\ [][NextConcurrent]_vars


\* The processing of extracted documents.
NextStore == StoreData \/ SetupVectorExtension \/ Return

SpecStore == Init /\ [][NextStore]_vars


\* =================================================================== claims
IsSearch == op = "search_vector_similarity"
IsChat == op = "process_query"
IsApi == op = "api_search"

SearchedClasses == {calls[i].entity_type : i \in 1..Len(calls)}

\* C1: when the vector query of search_vector_similarity fails and a non-empty
\* query_text was passed, the call returns exactly what search_text_similarity
\* returns for that text, class and limit; every record has score 0.5 and no
\* row of the vector query is in the result.
C1_FallbackOnly ==
    (IsSearch /\ vec_failed /\ args.query_text.given /\ args.query_text.text # <<>>)
        => /\ ret = SearchTextSimilarity(args.entity_type, args.query_text.text,
                                         args.limit)
           /\ rows = <<>>
           /\ \A i \in 1..Len(ret) : 2 * ret[i].similarity_score = 2 * Scale

\* The vector query failed although the index table exists, and the lexical
\* search cut its matches down to the caller's limit.
C1_Witness ==
    /\ IsSearch /\ vec_failed /\ args.query_text.given
    /\ IndexOf(args.entity_type).exists
    /\ args.entity_type = "university"
    /\ Len(ret) = args.limit
    /\ Len(ret) >= 2
    /\ Cardinality({id \in DOMAIN universities :
                       TextMatches("university", id, args.query_text.text)}) > args.limit

\* C2: when the vector query fails and no query_text was passed, the call
\* returns the empty list.
C2_NoTextEmpty ==
    (IsSearch /\ vec_failed /\ ~args.query_text.given) => ret = <<>>

\* The vector query failed without a query text while the table has rows the
\* lexical search would have matched.
C2_Witness ==
    /\ IsSearch /\ vec_failed /\ ~args.query_text.given
    /\ args.entity_type = "course"
    /\ DOMAIN courses # {}
    /\ ret = <<>>

\* C3 (as claimed): every call of search_vector_similarity with limit L
\* returns at most L records, on the vector path and on the fallback path.
C3_LimitBoundsResult ==
    IsSearch => Len(ret) <= args.limit

\* C4 (as claimed): process_query generates a query embedding, searches and
\* passes a context to the generator only when the classified intent has
\* requires_lookup = true.
C4_NoLookupNoRetrieval ==
    (IsChat /\ ~intent.requires_lookup)
        => embed_calls = 0 /\ calls = <<>> /\ ~generator.with_context

\* C5: on the vector path every similarity_score is 1.0 - min(distance/2, 1.0)
\* of the distance the index returned for that row: 1.0 at distance 0, 0.0 at
\* distance 2 and beyond, within [0.0, 1.0], never larger for a larger distance.
C5_SimilarityOfDistance ==
    (IsSearch /\ ~vec_failed)
        => /\ Len(ret) = Len(rows)
           /\ \A i \in 1..Len(ret) :
                 LET d  == rows[i].distance
                     sc == ret[i].similarity_score
                 IN /\ d >= 0
                    /\ ret[i].id = rows[i].rowid
                    /\ d = 0 => sc = 2 * Scale
                    /\ d >= 2 * Scale => sc = 0
                    /\ d < 2 * Scale => sc = 2 * Scale - d
                    /\ sc >= 0 /\ sc <= 2 * Scale
                    /\ \A j \in 1..Len(ret) :
                          d <= rows[j].distance => sc >= ret[j].similarity_score

\* One answer of the vector path with a row at distance 0, one at exactly 2
\* and one beyond 2.
C5_Witness ==
    /\ IsSearch /\ ~vec_failed
    /\ \E i, j, k \in 1..Len(ret) :
          /\ rows[i].distance = 0 /\ ret[i].similarity_score = 2 * Scale
          /\ rows[j].distance = 2 * Scale /\ ret[j].similarity_score = 0
          /\ rows[k].distance > 2 * Scale /\ ret[k].similarity_score = 0

\* C6 (as claimed): when a database search behind the endpoint fails, the
\* endpoint answers with a failure status, never with a successful response.
C6_SearchFailureReported ==
    (IsApi /\ \E i \in 1..Len(calls) : calls[i].vec_failed) => ret.status = 500

\* C7: when generate_embedding returns None for the query, the endpoint
\* answers 500 with the embedding failure as detail, before any connection is
\* opened and before any search runs.
C7_EmbeddingFailureReported ==
    (IsApi /\ args.query_embedding.kind = "None")
        => /\ ret.status = 500
           /\ ret.detail = "Failed to generate embedding for query"
           /\ ~conn_opened
           /\ calls = <<>>

\* The embedding failed for a request that would otherwise have searched both
\* classes.
C7_Witness ==
    /\ IsApi /\ args.query_embedding.kind = "None"
    /\ args.search_type = "all"
    /\ ret.status = 500

\* C8 (as claimed): with requires_lookup = true and a target outside
\* {university, course, both}, retrieval searches both entity classes.
C8_UnknownTargetSearchesBoth ==
    (IsChat /\ intent.requires_lookup /\ calls # <<>>
        /\ intent.target \notin {"university", "course", "both"})
        => SearchedClasses = {"university", "course"}

\* C9 (as claimed): when ChatModule runs retrieval, the classes it searches are
\* exactly those of the intent's target, each once, and the list of a class
\* that is not searched is empty.
C9_TargetDecidesClasses ==
    (IsChat /\ calls # <<>> /\ intent.target \in {"university", "course", "both"})
        => /\ SearchedClasses =
                 (IF intent.target = "both" THEN {"university", "course"}
                  ELSE {intent.target})
           /\ Len(calls) = Cardinality(SearchedClasses)
           /\ ("university" \notin SearchedClasses => generator.universities = <<>>)
           /\ ("course" \notin SearchedClasses => generator.courses = <<>>)

\* C10: once the endpoint has its connection, search_type 'universities'
\* searches universities only, 'courses' courses only, 'all' both, each class
\* once and with the caller's limit; a successful response carries for each
\* class what that class's search returned, and the empty list for a class
\* that was not searched.
C10_SearchTypeDecidesClasses ==
    (IsApi /\ conn_opened)
        => /\ args.search_type = "universities" => SearchedClasses = {"university"}
           /\ args.search_type = "courses" => SearchedClasses = {"course"}
           /\ args.search_type = "all" => SearchedClasses = {"university", "course"}
           /\ Len(calls) = Cardinality(SearchedClasses)
           /\ \A i \in 1..Len(calls) : calls[i].limit = args.limit
           /\ ret.status = 200 =>
                 /\ \A i \in 1..Len(calls) :
                       /\ calls[i].entity_type = "university"
                             => ret.universities = calls[i].ret
                       /\ calls[i].entity_type = "course"
                             => ret.courses = calls[i].ret
                 /\ ("university" \notin SearchedClasses => ret.universities = <<>>)
                 /\ ("course" \notin SearchedClasses => ret.courses = <<>>)

\* A successful 'universities' request: one search, of universities, and an
\* empty courses list.
C10_Witness ==
    /\ IsApi /\ conn_opened
    /\ args.search_type = "universities"
    /\ Len(calls) = 1 /\ calls[1].entity_type = "university"
    /\ ret.status = 200 /\ ret.courses = <<>>

IsPipeline == op = "generate_embeddings"
IsRebuild == op \in {"setup_vector_extension", "check_and_fix_embeddings"}

\* The rows of a store that hold exactly DIMENSION floats.
ValidRows(store) ==
    SelectSeq(store, LAMBDA r : r.embedding.kind = "bytes"
                                    /\ r.embedding.nbytes = 4 * DIMENSION)

\* C11 (as claimed): process_query returns a string for every query and every
\* combination of failures of classification, embedding, search and
\* generation, no exception escapes it, and a failure of the generator (the
\* model call or the formatting of the context) yields the fixed apology.
C11_ChatAlwaysAnswers ==
    IsChat
        => /\ raised = "None"
           /\ ret \in {"answer", "apology"}
           /\ (~generator.llm_ok
                  \/ FormatRaises(generator.universities, generator.courses))
                 => ret = "apology"

\* C12 (as claimed): a vector whose length is not DIMENSION makes the write of
\* the embedding store fail with a dimension-mismatch error, and the store
\* stays as it was.
C12_WrongLengthRejected ==
    (IsPipeline
        /\ \E i \in 1..Len(ret.embeddings) :
              /\ ~ret.embeddings[i].output.fault
              /\ Len(ret.embeddings[i].output.values) # DIMENSION)
        => ret.error = "DimensionMismatch" /\ ret.stored = <<>>

\* C13: in every run of the pipeline generate_embedding gives None for a
\* fault and otherwise exactly DIMENSION floats, the first DIMENSION entries
\* of a longer output and a shorter output followed by zeros; every row the
\* run stores holds a result that is not None and has DIMENSION entries.
C13_StoredLengthIsDimension ==
    IsPipeline
        => /\ \A i \in 1..Len(ret.embeddings) :
                 LET e == ret.embeddings[i]
                 IN IF e.output.fault THEN e.embedding = NoEmbedding
                    ELSE /\ e.embedding.kind = "list"
                         /\ Len(e.embedding.vec) = DIMENSION
                         /\ \A n \in 1..DIMENSION :
                               e.embedding.vec[n] =
                                   IF n <= Len(e.output.values)
                                   THEN e.output.values[n] ELSE 0
           /\ \A i \in 1..Len(ret.stored) :
                 /\ ret.stored[i].embedding.kind # "None"
                 /\ Len(ret.stored[i].embedding.vec) = DIMENSION

\* A run in which the model failed for one university and gave DIMENSION + 1
\* floats for the next.
C13_Witness ==
    /\ IsPipeline
    /\ \E i, j \in 1..Len(ret.embeddings) :
          /\ ret.embeddings[i].output.fault
          /\ ~ret.embeddings[j].output.fault
          /\ Len(ret.embeddings[j].output.values) > DIMENSION
          /\ Len(ret.embeddings[j].embedding.vec) = DIMENSION

\* C14: whatever runs of the pipeline have taken place, overlapping ones
\* included, no two rows of an embedding store have the same entity id.
C14_OneVectorPerId ==
    /\ \A i, j \in 1..Len(university_embeddings) :
          i # j => university_embeddings[i].entity_id # university_embeddings[j].entity_id
    /\ \A i, j \in 1..Len(course_embeddings) :
          i # j => course_embeddings[i].entity_id # course_embeddings[j].entity_id

\* One run has ended after it tried to store an embedding for a university
\* that the other run, still before its INSERTs, has selected as well.
C14_Witness ==
    /\ IsPipeline
    /\ \E i \in 1..Len(ret.embeddings) : ret.embeddings[i].embedding.kind = "list"
    /\ \E p \in Procs :
          /\ p # args.proc
          /\ runs[p].pc = "selected"
          /\ runs[p].pending = args.pending
          /\ args.pending # <<>>

\* C15 (as claimed): when a run of the pipeline ends without error, every
\* entity that has a stored embedding and was updated before the run began
\* has a stored vector that was computed after that update.
C15_UpdatedEntityReembedded ==
    (IsPipeline /\ ret.error = "None")
        => /\ \A i \in 1..Len(university_embeddings) :
                 LET r == university_embeddings[i]
                 IN (/\ r.entity_id \in DOMAIN universities
                     /\ universities[r.entity_id].updated_at
                            > universities[r.entity_id].created_at
                     /\ universities[r.entity_id].updated_at <= args.started)
                       => r.created_at >= universities[r.entity_id].updated_at
           /\ \A i \in 1..Len(course_embeddings) :
                 LET r == course_embeddings[i]
                 IN (/\ r.entity_id \in DOMAIN courses
                     /\ courses[r.entity_id].updated_at > courses[r.entity_id].created_at
                     /\ courses[r.entity_id].updated_at <= args.started)
                       => r.created_at >= courses[r.entity_id].updated_at

\* C16 (as claimed): when a run of the pipeline (constructor, then
\* generate_embeddings) ends without error, every university with a stored
\* embedding of DIMENSION floats has an entry in vec_university.
C16_StoredEmbeddingsIndexed ==
    (IsPipeline /\ ret.error = "None")
        => \A r \in Range(ValidRows(university_embeddings)) :
              r.entity_id \in DOMAIN universities
                  => /\ vec_university.exists
                     /\ r.entity_id \in DOMAIN vec_university.entries

\* C17 (as claimed): when a rebuild (setup_vector_extension, or
\* check_and_fix_embeddings) has run with sqlite-vec loaded, each vec0 table exists and holds an entry
\* for exactly the ids whose stored vector has DIMENSION floats, each with
\* that vector; a stored vector of another length is left out, and
\* setup_vector_extension returns True all the same.
C17_RebuildMirrorsStore ==
    (IsRebuild /\ args.ext_ok)
        => /\ op = "setup_vector_extension" => ret = TRUE
           /\ vec_university.exists
           /\ vec_course.exists
           /\ DOMAIN vec_university.entries
                 = StoredIds(ValidRows(university_embeddings))
           /\ DOMAIN vec_course.entries = StoredIds(ValidRows(course_embeddings))
           /\ \A r \in Range(ValidRows(university_embeddings)) :
                 vec_university.entries[r.entity_id] = r.embedding.vec
           /\ \A r \in Range(ValidRows(course_embeddings)) :
                 vec_course.entries[r.entity_id] = r.embedding.vec

C19_ReaderSeesCompleteIndex ==
    (IsSearch /\ rebuild.pc # "none" /\ args.entity_type \in {"university", "course"})
        => IF args.entity_type = "university"
           THEN vec_university \in {rebuild.vec_university, SetupResult(TRUE).vec_university}
           ELSE vec_course \in {rebuild.vec_course, SetupResult(TRUE).vec_course}

\* C20 (as claimed): a search with limit 1 whose query vector is the indexed
\* vector of a live entity, no other entry being at distance 0, returns
\* exactly that entity, with similarity_score 1.0.
C20_ExactMatchIsTheResult ==
    (IsSearch /\ ~vec_failed /\ args.limit = 1)
        => LET entries == IndexOf(args.entity_type).entries
               q == args.query_embedding.vec
           IN \A id \in DOMAIN entries :
                 (/\ Joined(args.entity_type, [rowid |-> id])
                  /\ entries[id] = q
                  /\ \A other \in DOMAIN entries \ {id} :
                        Distance(entries[other], q) > 0)
                    => ret = <<Result(args.entity_type, id, 2 * Scale)>>

\* C21: search_vector_similarity lets no exception through to its caller,
\* whatever the entity type, the embedding value and the state of the index
\* and of the entity tables: it returns a list, the empty one when the vector
\* path and the lexical fallback both fail.
C21_SearchNeverRaises ==
    IsSearch
        => /\ raised = "None"
           /\ (vec_failed /\ TextSearchError(args.entity_type) # "None") => ret = <<>>

\* A search with an invalid entity type and a query text: the vector path
\* raises ValueError, and so does the fallback it falls back to.
C21_Witness ==
    /\ IsSearch
    /\ vec_failed
    /\ args.entity_type \notin {"university", "course"}
    /\ HasText(args.query_text)
    /\ ret = <<>>

\* C22: every record the vector path returns is that of an entity whose row
\* exists when the query runs, a course's university row included; an entry
\* of the index without such an entity is not in the result.
C22_ResultsReferToLiveEntities ==
    (IsSearch /\ ~vec_failed)
        => /\ \A i \in 1..Len(ret) : Joined(args.entity_type, [rowid |-> ret[i].id])
           /\ Len(ret) = Len(rows)
           /\ \A i \in 1..Len(rows) :
                 /\ ret[i].id = rows[i].rowid
                 /\ rows[i].rowid \in DOMAIN IndexOf(args.entity_type).entries

\* A search of the courses that returns a record while the index holds,
\* among its K nearest entries, one for a course whose university row is
\* missing and one for a course that has no row at all.
C22_Witness ==
    /\ IsSearch
    /\ ~vec_failed
    /\ args.entity_type = "course"
    /\ ret # <<>>
    /\ Cardinality(DOMAIN vec_course.entries) <= K
    /\ \E id \in DOMAIN vec_course.entries :
          id \in DOMAIN courses /\ courses[id].university_id \notin DOMAIN universities
    /\ \E id \in DOMAIN vec_course.entries : id \notin DOMAIN courses

\* A rebuild or repair operation that ended without an error.
RebuildSucceeded ==
    \/ op = "setup_vector_extension" /\ ret = TRUE
    \/ op \in {"check_and_fix_embeddings", "fix_vector_tables"} /\ ret = "None"

\* C23 (as claimed): after a successful run of setup_vector_extension,
\* check_and_fix_embeddings or fix_vector_tables every entry of a vec0 table
\* has the rowid of an entity that exists in its entity table.
C23_NoEntryWithoutEntity ==
    RebuildSucceeded
        => /\ \A id \in DOMAIN vec_university.entries : EntityExists("university", id)
           /\ \A id \in DOMAIN vec_course.entries : EntityExists("course", id)

\* C24 (as claimed): the records of the vector path are in ascending order of
\* distance, that is in descending order of similarity_score, and records at
\* the same distance are in ascending order of id.
C24_OrderedByDistanceThenId ==
    (IsSearch /\ ~vec_failed)
        => \A i, j \in 1..Len(ret) :
              i < j => /\ rows[i].distance <= rows[j].distance
                       /\ ret[i].similarity_score >= ret[j].similarity_score
                       /\ rows[i].distance = rows[j].distance => ret[i].id < ret[j].id

\* A step of generate_embeddings: a run that has been constructed moves on.
RunStep ==
    \E p \in Procs : runs[p].pc \in {"constructed", "selected"} /\ runs'[p] # runs[p]

\* C25: no step of generate_embeddings changes vec_university, vec_course,
\* universities or courses.
C25_RunLeavesIndexAndEntities ==
    [][RunStep => UNCHANGED <<vec_university, vec_course, universities, courses>>]_vars

\* A run has ended after it computed an embedding, on a database with
\* universities and a populated index.
C25_Witness ==
    /\ IsPipeline
    /\ \E i \in 1..Len(ret.embeddings) : ret.embeddings[i].embedding.kind = "list"
    /\ universities # <<>>
    /\ vec_university.exists
    /\ DOMAIN vec_university.entries # {}

\* The step in which a run leaves its loop: commit or rollback.
RunEnds ==
    \E p \in Procs : runs[p].pc = "selected" /\ runs'[p].pc = "none"

\* C26: when generate_embedding returned None for a university of a run, the
\* run adds no row for that university, leaves every row the stores held as
\* it was, and has called generate_embedding for the next university.
C26_NothingStoredOnFailure ==
    [][RunEnds =>
         /\ Len(university_embeddings') >= Len(university_embeddings)
         /\ SubSeq(university_embeddings', 1, Len(university_embeddings))
                = university_embeddings
         /\ course_embeddings' = course_embeddings
         /\ \A i \in 1..Len(ret'.embeddings) :
               ret'.embeddings[i].embedding = NoEmbedding
                   => /\ \A n \in (Len(university_embeddings) + 1)
                                     ..Len(university_embeddings') :
                             university_embeddings'[n].entity_id
                                 # ret'.embeddings[i].id
                      /\ i < Len(args'.pending) => Len(ret'.embeddings) > i]_vars

\* A run over two universities without an embedding, beside one that has
\* one: the model failed for the first and answered for the second.
C26_Witness ==
    /\ IsPipeline
    /\ university_embeddings # <<>>
    /\ Len(args.pending) >= 2
    /\ Len(ret.embeddings) >= 2
    /\ ret.embeddings[1].embedding = NoEmbedding
    /\ ret.embeddings[2].embedding.kind = "list"

\* The rows of a table that have the key of `data`.
UniversityKeyRows(table, data) ==
    {id \in DOMAIN table :
        table[id].name = data.name /\ table[id].country = data.country}

CourseKeyRows(table, data) ==
    {id \in DOMAIN table :
        table[id].name = data.name /\ table[id].university_id = data.university_id}

\* What an upsert into `table` (becoming `after`) with key rows `had`
\* (becoming `has`) and result `id` must satisfy; `fixed` are the columns an
\* update leaves alone.
StableUpsert(table, after, had, has, id, fixed) ==
    /\ had # {} => /\ id \in had
                   /\ \A other \in had : id <= other
                   /\ Len(after) = Len(table)
    /\ had = {} => /\ id = Len(table) + 1
                   /\ Len(after) = Len(table) + 1
    /\ id \in has
    /\ Cardinality(has) = IF had = {} THEN 1 ELSE Cardinality(had)
    /\ \A i \in DOMAIN table :
          IF i = id THEN \A f \in fixed : after[i][f] = table[i][f]
          ELSE after[i] = table[i]

SubstringOf(field, query) == Contains(LowerText(field), LowerText(query))

\* The entities of a class with the query text in one of the class's fields.
SubstringMatches(entity_type, query) ==
    IF entity_type = "university"
    THEN {id \in DOMAIN universities :
             \/ SubstringOf(universities[id].name, query)
             \/ SubstringOf(universities[id].description, query)
             \/ SubstringOf(universities[id].country, query)}
    ELSE {id \in DOMAIN courses :
             \/ SubstringOf(courses[id].name, query)
             \/ SubstringOf(courses[id].description, query)
             \/ SubstringOf(courses[id].field_of_study, query)}

\* C28 (as claimed): the lexical fallback returns only entities that have
\* the query text, case ignored, as a substring of one of the class's fixed
\* fields, at most `limit` of them, and all of them when they are no more
\* than `limit`.
C28_FallbackIsSubstringSearch ==
    (/\ IsSearch /\ vec_failed /\ HasText(args.query_text)
     /\ args.entity_type \in {"university", "course"})
        => LET matches == SubstringMatches(args.entity_type, args.query_text.text)
               found == {ret[i].id : i \in 1..Len(ret)}
           IN /\ found \subseteq matches
              /\ Len(ret) <= args.limit
              /\ Cardinality(matches) <= args.limit => found = matches

\* C29 (as claimed): a rebuild (setup_vector_extension, fix_vector_tables)
\* with sqlite-vec loaded ends without an error whatever the byte lengths of
\* the stored blobs are, and every entry of a vec0 table comes from a blob
\* of exactly 4 * DIMENSION bytes.
C29_OnlyExactLengthIndexed ==
    (op \in {"setup_vector_extension", "fix_vector_tables"} /\ args.ext_ok)
        => /\ RebuildSucceeded
           /\ \A id \in DOMAIN vec_university.entries :
                 \E r \in Range(university_embeddings) :
                    r.entity_id = id /\ r.embedding.nbytes = 4 * DIMENSION
           /\ \A id \in DOMAIN vec_course.entries :
                 \E r \in Range(course_embeddings) :
                    r.entity_id = id /\ r.embedding.nbytes = 4 * DIMENSION

\* Every university of the document has a row in `us`, and every course of
\* the document a row in `cs` at a university of that name.
DocumentStored(document, us, cs) ==
    \A i \in 1..Len(document.universities) :
        LET u == document.universities[i]
        IN /\ \E id \in DOMAIN us :
                 us[id].name = u.university_name /\ us[id].country = u.country
           /\ \A c \in 1..Len(u.courses) :
                 \E id \in DOMAIN cs :
                    /\ cs[id].name = u.courses[c].name
                    /\ cs[id].university_id \in DOMAIN us
                    /\ us[cs[id].university_id].name = u.university_name

\* C30: _store_data lets no exception through; when a step raised, the
\* entity tables are as they were before the call, and otherwise every
\* university and course of the document has its row.
C30_StoreDataAllOrNothing ==
    [][(op = "idle" /\ op' = "_store_data")
          => /\ raised' = "None"
             /\ IF ret'.error = "None"
                THEN DocumentStored(args'.document, universities', courses')
                ELSE /\ ret'.rolled_back
                     /\ universities' = universities
                     /\ courses' = courses]_vars

\* _store_data has run on a document with two universities and a course,
\* none of which was in the tables: the first insert raised and nothing of
\* the document remains.
C30_Witness ==
    /\ op = "_store_data"
    /\ ret.error = "KeyError"
    /\ Len(args.document.universities) = 2
    /\ \A id \in DOMAIN universities :
          universities[id].name # args.document.universities[1].university_name
    /\ universities # <<>>

====
